---- MODULE Spec2Model ----
(***************************************************************************)
(* Model of the PQC gateway of database/backend/pqc_auth_middleware.rs:    *)
(* the actix-web application built in main, its two handlers               *)
(* pqc_handshake and proxy_request, and the per-worker AppState.           *)
(***************************************************************************)
EXTENDS Integers, Sequences, FiniteSets, TLC

(***************************************************************************)
(* Bounds of the model.                                                    *)
(***************************************************************************)
\* number of actix worker threads (each runs its own App instance)
NumWorkers == 2
\* total number of requests the server accepts in one behaviour
MaxRequests == 2
\* width in bits of the toy signature values carried by tokens
SigBits == 2

(***************************************************************************)
(* Program constants.                                                      *)
(***************************************************************************)
\* vec![0; 1024]: length of the placeholder key vectors
KeyLen == 1024
\* the byte the placeholder key vectors are filled with
KeyFill == 0

Workers == 1 .. NumWorkers

\* vec![elem; len], kept run-length encoded
VecRepeat(elem, len) == [elem |-> elem, len |-> len]

\* Option<T>: None is the empty sequence, Some(v) is <<v>>
None == <<>>
Some(v) == <<v>>
IsSome(o) == o # None

(***************************************************************************)
(* Requests a client can send.                                             *)
(***************************************************************************)
HandshakePath == "/pqc/handshake"
Paths == {HandshakePath, "/anything", "/"}
Methods == {"GET", "POST"}

\* the clock at which tokens are judged, and the expiry stamps clients send
Now == 1
Expiries == {Now - 1, Now + 1}
Nonces == {1, 2}
Identities == {"alice"}
SigValues == 0 .. (2 ^ SigBits - 1)

\* the key pair the clients sign their tokens with
ClientKey == VecRepeat(1, KeyLen)

\* a key as the number the toy digest below mixes in
KeyNum(key) == key.elem + key.len

\* the exact bytes of a token payload, as a number
PayloadBytes(payload) == 2 * payload.nonce + payload.expiry

\* sign(secret_key, message) of the primitive library, as a toy keyed digest
Sign(secret_key, message) ==
    (KeyNum(secret_key) + message) % (2 ^ SigBits)

\* verify(public_key, message, signature) of the primitive library
Verify(public_key, message, signature) ==
    signature = Sign(public_key, message)

\* the signature with bit i flipped
FlipBit(sig, i) ==
    IF (sig \div (2 ^ i)) % 2 = 1 THEN sig - 2 ^ i ELSE sig + 2 ^ i

\* the signature a client puts on payload
TokenSignature(payload) == Sign(ClientKey, PayloadBytes(payload))

Payloads ==
    [identity : Identities, expiry : Expiries, nonce : Nonces]

\* header values: well-formed tokens carrying the right signature or the
\* right signature with one bit flipped, and one value that does not parse
Tokens ==
    { [wellformed |-> TRUE, payload |-> p, signature |-> s] :
        p \in Payloads, s \in SigValues }

SentTokens ==
    { t \in Tokens :
        \/ t.signature = TokenSignature(t.payload)
        \/ \E i \in 0 .. (SigBits - 1) :
              t.signature = FlipBit(TokenSignature(t.payload), i) }

Garbage ==
    [wellformed |-> FALSE,
     payload |-> [identity |-> "alice", expiry |-> Now + 1, nonce |-> 1],
     signature |-> 0]

HeaderValues == SentTokens \cup {Garbage}

\* request bodies: a well-formed client KEM public key and a truncated one
Bodies == {VecRepeat(1, KeyLen), VecRepeat(1, KeyLen - 1)}

ATokenValue ==
    CHOOSE t \in SentTokens :
        /\ t.signature = TokenSignature(t.payload)
        /\ t.payload.expiry > Now
        /\ t.payload.nonce = 1

\* requests to the handshake path vary in method, body and header presence;
\* requests to "/anything" vary in method and in the header, and requests
\* to the other paths in method and header presence
Requests ==
    { [method |-> m, path |-> HandshakePath, quantum_auth |-> h, body |-> b] :
        m \in Methods, h \in {None, Some(ATokenValue)}, b \in Bodies }
    \cup
    { [method |-> m, path |-> "/anything", quantum_auth |-> h,
       body |-> VecRepeat(1, KeyLen)] :
        m \in Methods, h \in {None} \cup { Some(v) : v \in HeaderValues } }
    \cup
    { [method |-> m, path |-> p, quantum_auth |-> h,
       body |-> VecRepeat(1, KeyLen)] :
        m \in Methods, p \in Paths \ {HandshakePath, "/anything"},
        h \in {None, Some(ATokenValue)} }

(***************************************************************************)
(* Responses.                                                              *)
(***************************************************************************)
Text(s) == [kind |-> "text", text |-> s]
HttpResponse(status, body) == [status |-> status, body |-> body]

(***************************************************************************)
(* State.                                                                  *)
(***************************************************************************)
VARIABLES
    appState,       \* appState[w]: the AppState of worker w's App instance
    worker,         \* worker[w]: the request worker w is handling, if any
    backend,        \* the requests the backend service has received
    accepted,       \* number of requests that took the Some(_) branch
    served          \* number of requests accepted from the network

vars == <<appState, worker, backend, accepted, served>>

\* struct AppState
AppState(server_public_key, server_secret_key) ==
    [server_public_key |-> server_public_key,
     server_secret_key |-> server_secret_key]

\* the key pairs an AppState holds: the Kyber pair, and no other
KeyPairs(data) ==
    { [role |-> "kem",
       public_key |-> data.server_public_key,
       secret_key |-> data.server_secret_key] }

\* let pk = vec![0; 1024];  let sk = vec![0; 1024];
pk == VecRepeat(KeyFill, KeyLen)
sk == VecRepeat(KeyFill, KeyLen)

Idle ==
    [pc |-> "idle", req |-> None, auth_header |-> None, resp |-> None,
     checks |-> <<>>]

\* main: the keys are generated once and cloned into every worker's App
Init ==
    /\ appState = [w \in Workers |-> AppState(pk, sk)]
    /\ worker = [w \in Workers |-> Idle]
    /\ backend = <<>>
    /\ accepted = 0
    /\ served = 0

\* the routes registered in the opposite order: the catch-all takes all
Route_catch_all_first(method, path) == "proxy_request"

(***************************************************************************)
(* Routing: the routes of main, tried in registration order.  The first    *)
(* resource whose path pattern matches takes the request; when none of its *)
(* routes accepts the method, the resource's default service answers.      *)
(***************************************************************************)
Route(method, path) ==
    IF path = HandshakePath
    THEN IF method = "POST" THEN "pqc_handshake" ELSE "default_service"
    ELSE "proxy_request"

\* pqc_handshake answering with the server's secret key in the body
handshake_response_leaks_key(req, data) ==
    HttpResponse(200, [kind |-> "json",
                       ciphertext |-> data.server_secret_key,
                       signature |-> data.server_secret_key])

\* the body of pqc_handshake: the mock answer, whatever the request holds
handshake_response(req, data) ==
    HttpResponse(200, Text("PQC Handshake Mock Endpoint"))

\* req.headers().get("X-Quantum-Auth")
get_quantum_auth(req) == req.quantum_auth

\* proxy_request rejecting a header value that does not parse
proxy_response_checks_structure(auth_header) ==
    IF IsSome(auth_header) /\ auth_header[1].wellformed
    THEN HttpResponse(200, Text("Proxy Successful"))
    ELSE HttpResponse(401, Text("Missing Quantum Authorization"))

\* proxy_request with the None arm answering like the Some(_) arm
proxy_response_no_presence_check(auth_header) ==
    HttpResponse(200, Text("Proxy Successful"))

\* the match of proxy_request on auth_header
proxy_response(auth_header) ==
    IF IsSome(auth_header)
    THEN HttpResponse(200, Text("Proxy Successful"))
    ELSE HttpResponse(401, Text("Missing Quantum Authorization"))

\* the requests proxy_request hands to the backend for auth_header: none
proxy_forwards(auth_header, req) == <<>>

\* the checks proxy_request runs on auth_header, in the order it runs them:
\* the match on the header's presence, and nothing in the Some(_) arm
proxy_checks(auth_header) == <<"presence">>

\* what a resource answers when no route of it accepts the method
DefaultResponses ==
    {HttpResponse(405, Text("")), HttpResponse(404, Text(""))}

(***************************************************************************)
(* Actions.                                                                *)
(***************************************************************************)
\* a worker takes a request from the network and routes it
accept(w, r) ==
    /\ worker[w].pc = "idle"
    /\ served < MaxRequests
    /\ worker' = [worker EXCEPT ![w] =
           [pc |-> Route(r.method, r.path), req |-> Some(r),
            auth_header |-> None, resp |-> None, checks |-> <<>>]]
    /\ served' = served + 1
    /\ UNCHANGED <<appState, backend, accepted>>

\* pqc_handshake replacing the worker's secret key while it answers
pqc_handshake_rekeys(w) ==
    /\ worker[w].pc = "pqc_handshake"
    /\ worker' = [worker EXCEPT ![w] =
           [worker[w] EXCEPT
               !.pc = "responded",
               !.resp = Some(handshake_response(worker[w].req[1], appState[w]))]]
    /\ appState' = [appState EXCEPT
           ![w].server_secret_key = VecRepeat(KeyFill + 1, KeyLen)]
    /\ UNCHANGED <<backend, accepted, served>>

\* pqc_handshake runs to its return
pqc_handshake(w) ==
    /\ worker[w].pc = "pqc_handshake"
    /\ worker' = [worker EXCEPT ![w] =
           [worker[w] EXCEPT
               !.pc = "responded",
               !.resp = Some(handshake_response(worker[w].req[1], appState[w]))]]
    /\ UNCHANGED <<appState, backend, accepted, served>>

\* proxy_request, line 39: let auth_header = req.headers().get(...)
proxy_extract(w) ==
    /\ worker[w].pc = "proxy_request"
    /\ worker' = [worker EXCEPT ![w] =
           [worker[w] EXCEPT
               !.pc = "token_extracted",
               !.auth_header = get_quantum_auth(worker[w].req[1])]]
    /\ UNCHANGED <<appState, backend, accepted, served>>

\* proxy_request awaiting a verification that never completes
proxy_match_hangs(w) ==
    /\ worker[w].pc = "token_extracted"
    /\ UNCHANGED vars

\* proxy_request, lines 40-47: match auth_header { Some(_) => .., None => .. }
proxy_match(w) ==
    /\ worker[w].pc = "token_extracted"
    /\ worker' = [worker EXCEPT ![w] =
           [worker[w] EXCEPT
               !.pc = "responded",
               !.auth_header = None,
               !.checks = proxy_checks(worker[w].auth_header),
               !.resp = Some(proxy_response(worker[w].auth_header))]]
    /\ backend' = backend \o proxy_forwards(worker[w].auth_header, worker[w].req[1])
    /\ accepted' = IF IsSome(worker[w].auth_header) THEN accepted + 1 ELSE accepted
    /\ UNCHANGED <<appState, served>>

\* a request to /pqc/handshake with another method than POST
default_service(w) ==
    /\ worker[w].pc = "default_service"
    /\ \E resp \in DefaultResponses :
          worker' = [worker EXCEPT ![w] =
              [worker[w] EXCEPT !.pc = "responded", !.resp = Some(resp)]]
    /\ UNCHANGED <<appState, backend, accepted, served>>

\* the response is written to the client and the worker is free again
respond(w) ==
    /\ worker[w].pc = "responded"
    /\ worker' = [worker EXCEPT ![w] = Idle]
    /\ UNCHANGED <<appState, backend, accepted, served>>

Next ==
    \/ \E w \in Workers, r \in Requests : accept(w, r)
    \/ \E w \in Workers : pqc_handshake(w)
    \/ \E w \in Workers : proxy_extract(w)
    \/ \E w \in Workers : proxy_match(w)
    \/ \E w \in Workers : default_service(w)
    \/ \E w \in Workers : respond(w)

Spec == Init /\ [][Next]_vars

\* a handler that has been started is polled until it returns: neither
\* handler awaits anything, and the response of a finished handler is sent
Fairness ==
    \A w \in Workers :
        /\ WF_vars(pqc_handshake(w))
        /\ WF_vars(proxy_extract(w))
        /\ WF_vars(proxy_match(w))
        /\ WF_vars(default_service(w))
        /\ WF_vars(respond(w))

\* the requests of the progress specification: every method, path and
\* body, without a header and with one header value
ProgressRequests ==
    { r \in Requests : r.quantum_auth \in {None, Some(ATokenValue)} }

FairNext ==
    \/ \E w \in Workers, r \in ProgressRequests : accept(w, r)
    \/ \E w \in Workers : pqc_handshake(w)
    \/ \E w \in Workers : proxy_extract(w)
    \/ \E w \in Workers : proxy_match(w)
    \/ \E w \in Workers : default_service(w)
    \/ \E w \in Workers : respond(w)

FairSpec == Init /\ [][FairNext]_vars /\ Fairness

(***************************************************************************)
(* Vocabulary of the properties.                                           *)
(***************************************************************************)
Req(w) == worker[w].req[1]
Resp(w) == worker[w].resp[1]
Responded(w) == worker[w].pc = "responded"

\* worker w has answered a request that was dispatched to proxy_request
GateResponded(w) ==
    /\ Responded(w)
    /\ Route(Req(w).method, Req(w).path) = "proxy_request"

\* worker w has answered a request that was dispatched to pqc_handshake
HandshakeResponded(w) ==
    /\ Responded(w)
    /\ Route(Req(w).method, Req(w).path) = "pqc_handshake"

\* the checks of the token verifier that depend on the token alone
StructureOk(h) == IsSome(h) /\ h[1].wellformed
Fresh(h) == h[1].payload.expiry > Now
SignatureOk(h) ==
    Verify(ClientKey, PayloadBytes(h[1].payload), h[1].signature)
TokenVerified(h) == StructureOk(h) /\ Fresh(h) /\ SignatureOk(h)

\* the number of requests the backend has received that equal req
BackendCalls(req) ==
    Cardinality({ i \in 1 .. Len(backend) : backend[i] = req })

\* C1: every request the gate answers with the success response carries a
\* token that passed the structure, freshness and signature checks.
C1_OnlyVerifiedForwarded ==
    \A w \in Workers :
        (GateResponded(w) /\ Resp(w).status = 200)
            => TokenVerified(Req(w).quantum_auth)

\* C2: a request the gate rejects causes no backend invocation, and the
\* number of backend invocations equals the number of accepted requests
\* that reached the forwarding step.
C2_NoContact ==
    /\ \A w \in Workers :
          (GateResponded(w) /\ Resp(w).status = 401)
              => BackendCalls(Req(w)) = 0
    /\ Len(backend) = accepted

\* C3: a request to a path other than the handshake path that carries no
\* X-Quantum-Auth header is dispatched to the gate whatever its method, is
\* answered 401 "Missing Quantum Authorization", and the backend receives
\* nothing on its behalf.
C3_MissingTokenRejected ==
    \A w \in Workers :
        (/\ worker[w].pc # "idle"
         /\ Req(w).path # HandshakePath
         /\ Req(w).quantum_auth = None)
            => /\ worker[w].pc \in {"proxy_request", "token_extracted", "responded"}
               /\ BackendCalls(Req(w)) = 0
               /\ Responded(w) =>
                     Resp(w) = HttpResponse(401, Text("Missing Quantum Authorization"))

\* a POST without the header to another path has been answered 401
C3_Witness ==
    \E w \in Workers :
        /\ Responded(w)
        /\ Req(w).path # HandshakePath
        /\ Req(w).method = "POST"
        /\ Req(w).quantum_auth = None
        /\ Resp(w).status = 401

\* C4: two requests handled at the same time that carry the same valid
\* token are never both accepted: exactly one is answered with the success
\* response and the other with 401.
C4_ReplayAcceptedOnce ==
    \A w1, w2 \in Workers :
        (/\ w1 # w2
         /\ GateResponded(w1)
         /\ GateResponded(w2)
         /\ TokenVerified(Req(w1).quantum_auth)
         /\ Req(w2).quantum_auth = Req(w1).quantum_auth)
            => \/ Resp(w1).status = 200 /\ Resp(w2).status = 401
               \/ Resp(w1).status = 401 /\ Resp(w2).status = 200

\* h2 carries the payload of h1 and the signature of h1 with one bit flipped
Tampered(h1, h2) ==
    /\ StructureOk(h1)
    /\ StructureOk(h2)
    /\ h2[1].payload = h1[1].payload
    /\ \E i \in 0 .. (SigBits - 1) :
          h2[1].signature = FlipBit(h1[1].signature, i)

\* C5: when a payload was accepted with its correct signature, a token with
\* the same payload and a signature that differs in a bit is answered 401
\* and is not forwarded.
C5_TamperRejected ==
    \A w1, w2 \in Workers :
        (/\ GateResponded(w1)
         /\ GateResponded(w2)
         /\ TokenVerified(Req(w1).quantum_auth)
         /\ Resp(w1).status = 200
         /\ Tampered(Req(w1).quantum_auth, Req(w2).quantum_auth))
            => /\ Resp(w2).status = 401
               /\ BackendCalls(Req(w2)) = 0

\* C6: a request whose token has an expiry in the past is answered 401 and
\* the backend is not called, also when its signature is valid.
C6_ExpiredRejected ==
    \A w \in Workers :
        (/\ GateResponded(w)
         /\ StructureOk(Req(w).quantum_auth)
         /\ Req(w).quantum_auth[1].payload.expiry < Now)
            => /\ Resp(w).status = 401
               /\ BackendCalls(Req(w)) = 0

\* a client KEM public key of the configured parameter set
WellFormedKey(key) == key.len = KeyLen

\* C7: the answer to a handshake with a valid client KEM public key holds
\* a ciphertext and a signature, and the signature verifies under the
\* gateway's public key over the ciphertext returned with it.
C7_SignatureBinding ==
    \A w \in Workers :
        (HandshakeResponded(w) /\ WellFormedKey(Req(w).body))
            => /\ Resp(w).status = 200
               /\ Resp(w).body.kind = "json"
               /\ Verify(appState[w].server_public_key,
                         Resp(w).body.ciphertext, Resp(w).body.signature)

\* C8: a handshake whose public key is truncated is answered 400, and the
\* answer holds neither a ciphertext nor a signature.
C8_InvalidPublicKey ==
    \A w \in Workers :
        (HandshakeResponded(w) /\ ~WellFormedKey(Req(w).body))
            => /\ Resp(w).status = 400
               /\ Resp(w).body.kind # "json"

\* the answer of the backend service to a request it receives
BackendResponse(req) ==
    HttpResponse(IF req.method = "POST" THEN 201 ELSE 200, Text("rows"))

\* C9: a request with a valid, fresh, correctly signed token reaches the
\* backend unmodified, and the client receives the status and body of the
\* backend's answer.
C9_RelayedVerbatim ==
    \A w \in Workers :
        (GateResponded(w) /\ TokenVerified(Req(w).quantum_auth))
            => /\ BackendCalls(Req(w)) >= 1
               /\ Resp(w) = BackendResponse(Req(w))

\* the authorization rejection a token calls for, from the token alone
RejectionReason(h) ==
    IF h = None THEN "MissingToken"
    ELSE IF ~h[1].wellformed THEN "Malformed"
    ELSE IF ~Fresh(h) THEN "Expired"
    ELSE IF ~SignatureOk(h) THEN "InvalidSignature"
    ELSE "none"

AuthorizationRejections == {"MissingToken", "Expired", "InvalidSignature"}

\* C10: requests that are to be rejected for a missing, an expired or a
\* wrongly signed token all receive status 401 and one and the same body,
\* whichever check failed.
C10_UniformRejection ==
    \A w1, w2 \in Workers :
        (/\ GateResponded(w1)
         /\ GateResponded(w2)
         /\ RejectionReason(Req(w1).quantum_auth) \in AuthorizationRejections
         /\ RejectionReason(Req(w2).quantum_auth) \in AuthorizationRejections)
            => /\ Resp(w1).status = 401
               /\ Resp(w1) = Resp(w2)

\* the checks of the verifier in their order, up to the first that fails
ChecksInOrder(h) ==
    IF h = None THEN <<"presence">>
    ELSE IF ~h[1].wellformed THEN <<"presence", "structure">>
    ELSE IF ~Fresh(h) THEN <<"presence", "structure", "freshness">>
    ELSE <<"presence", "structure", "freshness", "signature">>

\* C11: the gate runs the checks presence, structure, freshness, signature
\* in this order and stops at the first that fails, so that the signature
\* check is not run for a missing, malformed or expired token.
C11_ChecksInOrder ==
    \A w \in Workers :
        GateResponded(w) =>
            /\ worker[w].checks = ChecksInOrder(Req(w).quantum_auth)
            /\ RejectionReason(Req(w).quantum_auth)
                    \in {"MissingToken", "Malformed", "Expired"}
                  => \A i \in 1 .. Len(worker[w].checks) :
                        worker[w].checks[i] # "signature"

\* the steps a request of the gate may take: Start, TokenExtracted,
\* Verified and Responded (the verdict and the response are one step)
GateStep(w) ==
    \/ worker[w].pc = "proxy_request" /\ worker'[w].pc = "token_extracted"
    \/ worker[w].pc = "token_extracted" /\ worker'[w].pc = "responded"

C13_KeysImmutable ==
    \A w \in Workers : appState[w] = AppState(pk, sk)

\* a handshake and a proxied request have been answered on two workers
C13_Witness ==
    \E w1, w2 \in Workers :
        /\ HandshakeResponded(w1)
        /\ GateResponded(w2)
        /\ appState[w1].server_secret_key = sk

\* C14: the verdict on a request is made from its own token: a request
\* without a valid token is rejected also when a request with a valid token
\* has been accepted.
C14_NoTrustCaching ==
    \A w1, w2 \in Workers :
        (/\ GateResponded(w1)
         /\ TokenVerified(Req(w1).quantum_auth)
         /\ Resp(w1).status = 200
         /\ GateResponded(w2)
         /\ ~TokenVerified(Req(w2).quantum_auth))
            => Resp(w2).status = 401

\* the values a response body carries besides fixed text
Carried(body) ==
    IF body.kind = "json" THEN <<body.ciphertext, body.signature>> ELSE <<>>

C16_TwoKeyPairs ==
    \A w \in Workers :
        HandshakeResponded(w) =>
            /\ \E k \in KeyPairs(appState[w]) : k.role = "kem"
            /\ \E k \in KeyPairs(appState[w]) : k.role = "signature"

C18_Dispatch ==
    \A w \in Workers :
        worker[w].pc # "idle" =>
            /\ (Req(w).path = HandshakePath /\ Req(w).method = "POST") =>
                  /\ worker[w].pc \in {"pqc_handshake", "responded"}
                  /\ worker[w].checks = <<>>
                  /\ Responded(w) =>
                        Resp(w) = HttpResponse(200, Text("PQC Handshake Mock Endpoint"))
            /\ Req(w).path # HandshakePath =>
                  /\ worker[w].pc \in {"proxy_request", "token_extracted", "responded"}
                  /\ Responded(w) =>
                        /\ worker[w].checks = <<"presence">>
                        /\ Req(w).quantum_auth = None => Resp(w).status = 401

\* a handshake without the header has succeeded while a request to another
\* path without the header has been rejected
C18_Witness ==
    \E w1, w2 \in Workers :
        /\ Responded(w1)
        /\ Req(w1).path = HandshakePath
        /\ Req(w1).method = "POST"
        /\ Req(w1).quantum_auth = None
        /\ Resp(w1).status = 200
        /\ Responded(w2)
        /\ Req(w2).path # HandshakePath
        /\ Req(w2).quantum_auth = None
        /\ Resp(w2).status = 401

====
